---- MODULE Spec2Model ----
(***************************************************************************)
(* Model of src/app.py (ArtScraper): the /check-plagiarism request, the    *)
(* two search adapters (SerpAPI, Toolhouse with its site crawler) and the  *)
(* aggregation of their results by combine_search_results.                 *)
(*                                                                         *)
(* A Python dict is a record; a key that is missing from a dict is the     *)
(* field value Absent, so that dict.get(key, default) is Get.  Every       *)
(* string the program formats is taken from a table.                       *)
(***************************************************************************)
EXTENDS Integers, Sequences, FiniteSets, TLC

VARIABLES pc, SERPAPI_KEY, TOOLHOUSE_API_KEY, net, io,
          serpapi_results, toolhouse_results, combined_results, http

vars == <<pc, SERPAPI_KEY, TOOLHOUSE_API_KEY, net, io,
          serpapi_results, toolhouse_results, combined_results, http>>

-----------------------------------------------------------------------------
(* Bounds of the model                                                     *)

\* total number of match records given to combine_search_results directly
MaxTotal == 4
\* longest result list a provider answers with
MaxResults == 6
\* provider result lists up to this length take every combination of entries
MaxVaried == 2
\* number of images a crawled site answers with
MaxImages == 3
\* number of target sites whose request does not answer with images
MaxFailSites == 1

-----------------------------------------------------------------------------
(* Python values                                                           *)

\* a key that the dict does not have
Absent == "<absent>"

\* os.getenv of a variable that is not set
None == "<None>"

\* dict.get(key, default), v being the value under the key or Absent
Get(v, default) == IF v = Absent THEN default ELSE v

\* truth value of a string or of None
Truthy(s) == s # "" /\ s # None

\* a slice that cuts nothing
Slice_Whole(s, n) == s

\* s[:n]
Slice(s, n) == IF Len(s) <= n THEN s ELSE SubSeq(s, 1, n)

\* a result dict that no adapter has returned yet
NoResult == [matches |-> <<>>, total_found |-> 0, source |-> "<none>", error |-> Absent]

\* combined_results before combine_search_results has run
NoCombined ==
    [matches |-> <<>>, total_found |-> -1, serpapi_count |-> -1,
     toolhouse_count |-> -1, errors |-> <<>>]

\* no provider call in progress
NoResponse ==
    [kind |-> "none", msg |-> "", status |-> 0, is_json |-> FALSE,
     has_results |-> FALSE, has_list |-> FALSE, items |-> <<>>]

NoNet == [primary |-> NoResponse, sites |-> <<>>]

-----------------------------------------------------------------------------
(* Strings the adapters format                                             *)

target_sites ==
    <<"pinterest.com", "flickr.com", "unsplash.com", "shutterstock.com",
      "getty images.com">>

\* f'Image from {site}'
ImageFrom(site) ==
    CASE site = "pinterest.com" -> "Image from pinterest.com"
      [] site = "flickr.com" -> "Image from flickr.com"
      [] site = "unsplash.com" -> "Image from unsplash.com"
      [] site = "shutterstock.com" -> "Image from shutterstock.com"
      [] OTHER -> "Image from getty images.com"

\* f'Toolhouse Crawler ({site})'
CrawlerEngine(site) ==
    CASE site = "pinterest.com" -> "Toolhouse Crawler (pinterest.com)"
      [] site = "flickr.com" -> "Toolhouse Crawler (flickr.com)"
      [] site = "unsplash.com" -> "Toolhouse Crawler (unsplash.com)"
      [] site = "shutterstock.com" -> "Toolhouse Crawler (shutterstock.com)"
      [] OTHER -> "Toolhouse Crawler (getty images.com)"

\* f'Toolhouse API error: {response.status_code}'
StatusError(status) ==
    CASE status = 500 -> "Toolhouse API error: 500"
      [] status = 200 -> "Toolhouse API error: 200"
      [] OTHER -> "Toolhouse API error: <status>"

\* str(e) of the exception response.json() raises on a body that is no JSON
JsonErrorMsg == "Expecting value: line 1 column 1 (char 0)"

\* an event of the io log: who did what to what
Event(by, op, target) == [by |-> by, op |-> op, target |-> target]

\* the dict of an except branch
Failure(source, msg) ==
    [matches |-> <<>>, total_found |-> 0, source |-> source, error |-> msg]

\* the dict of a missing credential
Disabled(source) ==
    [matches |-> <<>>, total_found |-> 0, source |-> source, error |-> Absent]

-----------------------------------------------------------------------------
(* search_similar_images_serpapi                                           *)

SerpMatch(result) ==
    [title |-> Get(result.title, "No title"),
     source |-> Get(result.source, "Unknown source"),
     thumbnail |-> Get(result.thumbnail, ""),
     link |-> Get(result.link, ""),
     similarity |-> "High",
     search_engine |-> "Google (SerpAPI)"]

\* data['image_results'][:5], or nothing when the key is missing
SerpEntries(resp) == IF resp.has_list THEN Slice(resp.items, 5) ELSE <<>>

\* an adapter that takes only an unset key, not an empty one, as missing
search_similar_images_serpapi_NoneOnly(key, resp) ==
    IF key = None
    THEN [raised |-> FALSE, ret |-> Disabled("serpapi"), io |-> <<>>]
    ELSE LET did == <<Event("serpapi", "open", "image"),
                      Event("serpapi", "post", "https://serpapi.com/search")>>
         IN  IF resp.kind = "exception" \/ ~resp.is_json
             THEN [raised |-> FALSE, ret |-> Failure("serpapi", JsonErrorMsg), io |-> did]
             ELSE LET entries == SerpEntries(resp)
                      matches == [i \in 1..Len(entries) |-> SerpMatch(entries[i])]
                  IN  [raised |-> FALSE,
                       ret |-> [matches |-> matches, total_found |-> Len(matches),
                                source |-> "serpapi", error |-> Absent],
                       io |-> did]

\* what the adapter returns (ret), whether an exception leaves it (raised),
\* and the file and network operations it did (io)
search_similar_images_serpapi(key, resp) ==
    IF ~Truthy(key)
    THEN [raised |-> FALSE, ret |-> Disabled("serpapi"), io |-> <<>>]
    ELSE LET did == <<Event("serpapi", "open", "image"),
                      Event("serpapi", "post", "https://serpapi.com/search")>>
         IN  IF resp.kind = "exception"
             THEN [raised |-> FALSE, ret |-> Failure("serpapi", resp.msg), io |-> did]
             ELSE IF ~resp.is_json
             THEN [raised |-> FALSE, ret |-> Failure("serpapi", JsonErrorMsg), io |-> did]
             ELSE LET entries == SerpEntries(resp)
                      matches == [i \in 1..Len(entries) |-> SerpMatch(entries[i])]
                  IN  [raised |-> FALSE,
                       ret |-> [matches |-> matches, total_found |-> Len(matches),
                                source |-> "serpapi", error |-> Absent],
                       io |-> did]

-----------------------------------------------------------------------------
(* crawl_image_sites_toolhouse                                             *)

CrawlMatch(site, img) ==
    [title |-> Get(img.alt_text, ImageFrom(site)),
     source |-> site,
     thumbnail |-> Get(img.thumbnail_url, ""),
     link |-> Get(img.page_url, ""),
     similarity |-> Get(img.similarity_score, "Medium"),
     search_engine |-> CrawlerEngine(site)]

\* the matches one answered site adds
SiteMatches(site, resp) ==
    IF resp.has_results /\ resp.has_list
    THEN LET imgs == Slice(resp.items, 2)
         IN  [k \in 1..Len(imgs) |-> CrawlMatch(site, imgs[k])]
    ELSE <<>>

\* the for loop from target_sites[i] on, inside the try; acc is
\* additional_matches and the requests made
RECURSIVE CrawlFrom(_, _, _)
CrawlFrom(i, sites, acc) ==
    IF i > Len(target_sites) THEN acc
    ELSE LET site == target_sites[i]
             resp == sites[i]
             posted == [acc EXCEPT !.io = Append(@, Event("toolhouse", "post", site))]
         IN  IF resp.kind = "exception" THEN posted
             ELSE IF resp.status = 200
             THEN IF ~resp.is_json THEN posted
                  ELSE CrawlFrom(i + 1, sites,
                         [posted EXCEPT !.matches = @ \o SiteMatches(site, resp)])
             ELSE CrawlFrom(i + 1, sites, posted)

crawl_image_sites_toolhouse(sites) ==
    CrawlFrom(1, sites, [matches |-> <<>>, io |-> <<>>])

-----------------------------------------------------------------------------
(* search_similar_images_toolhouse                                         *)

ToolMatch(result) ==
    [title |-> Get(result.title, "No title"),
     source |-> Get(result.domain, "Unknown source"),
     thumbnail |-> Get(result.thumbnail_url, ""),
     link |-> Get(result.page_url, ""),
     similarity |-> Get(result.similarity_score, "Medium"),
     search_engine |-> Get(result.found_via, "Toolhouse Scraper"),
     additional_info |-> Get(result.metadata, "{}")]

\* data['results']['matches'][:5], or nothing when a key is missing
ToolEntries(resp) ==
    IF resp.has_results /\ resp.has_list THEN Slice(resp.items, 5) ELSE <<>>

\* an adapter whose primary request is outside the try
search_similar_images_toolhouse_PostOutsideTry(key, n) ==
    IF ~Truthy(key)
    THEN [raised |-> FALSE, ret |-> Disabled("toolhouse"), io |-> <<>>]
    ELSE LET did == <<Event("toolhouse", "open", "image"),
                      Event("toolhouse", "post", "web_scraper")>>
             resp == n.primary
         IN  IF resp.kind = "exception"
             THEN [raised |-> TRUE, ret |-> Failure("toolhouse", resp.msg), io |-> did]
             ELSE IF resp.status # 200
             THEN [raised |-> FALSE,
                   ret |-> Failure("toolhouse", StatusError(resp.status)), io |-> did]
             ELSE IF ~resp.is_json
             THEN [raised |-> FALSE, ret |-> Failure("toolhouse", JsonErrorMsg), io |-> did]
             ELSE LET entries == ToolEntries(resp)
                      first == [i \in 1..Len(entries) |-> ToolMatch(entries[i])]
                      crawl == crawl_image_sites_toolhouse(n.sites)
                      matches == first \o crawl.matches
                  IN  [raised |-> FALSE,
                       ret |-> [matches |-> matches, total_found |-> Len(matches),
                                source |-> "toolhouse", error |-> Absent],
                       io |-> did \o crawl.io]

search_similar_images_toolhouse(key, n) ==
    IF ~Truthy(key)
    THEN [raised |-> FALSE, ret |-> Disabled("toolhouse"), io |-> <<>>]
    ELSE LET did == <<Event("toolhouse", "open", "image"),
                      Event("toolhouse", "post", "web_scraper")>>
             resp == n.primary
         IN  IF resp.kind = "exception"
             THEN [raised |-> FALSE, ret |-> Failure("toolhouse", resp.msg), io |-> did]
             ELSE IF resp.status # 200
             THEN [raised |-> FALSE,
                   ret |-> Failure("toolhouse", StatusError(resp.status)), io |-> did]
             ELSE IF ~resp.is_json
             THEN [raised |-> FALSE, ret |-> Failure("toolhouse", JsonErrorMsg), io |-> did]
             ELSE LET entries == ToolEntries(resp)
                      first == [i \in 1..Len(entries) |-> ToolMatch(entries[i])]
                      crawl == crawl_image_sites_toolhouse(n.sites)
                      matches == first \o crawl.matches
                  IN  [raised |-> FALSE,
                       ret |-> [matches |-> matches, total_found |-> Len(matches),
                                source |-> "toolhouse", error |-> Absent],
                       io |-> did \o crawl.io]

-----------------------------------------------------------------------------
(* What the providers may answer                                           *)

Exception(msg) ==
    [kind |-> "exception", msg |-> msg, status |-> 0, is_json |-> FALSE,
     has_results |-> FALSE, has_list |-> FALSE, items |-> <<>>]

\* an HTTP response whose body is no JSON
NotJson(status) ==
    [kind |-> "http", msg |-> "", status |-> status, is_json |-> FALSE,
     has_results |-> FALSE, has_list |-> FALSE, items |-> <<>>]

\* an HTTP response with a JSON object: has_results says that the key
\* 'results' is there, has_list that the key of the list is there
\* ('image_results', 'matches' or 'similar_images')
Json(status, has_results, has_list, items) ==
    [kind |-> "http", msg |-> "", status |-> status, is_json |-> TRUE,
     has_results |-> has_results, has_list |-> has_list, items |-> items]

Statuses == {200, 500}

LongLinks == <<"a", "b", "c", "d", "e", "f", "g", "h">>

SerpEntry(title, source, thumbnail, link) ==
    [title |-> title, source |-> source, thumbnail |-> thumbnail, link |-> link]

SerpEntrySet ==
    {SerpEntry(Absent, Absent, Absent, Absent),
     SerpEntry("Sunflowers", "example.com", "thumb-b", "b")}

\* every list of at most n entries
Lists(entries, n) == UNION {[1..k -> entries] : k \in 0..n}

SerpLists ==
    Lists(SerpEntrySet, MaxVaried)
    \cup {[i \in 1..n |-> SerpEntry(Absent, Absent, Absent, LongLinks[i])] :
            n \in (MaxVaried + 1)..MaxResults}

SerpResponses ==
    {Exception("Connection refused")}
    \cup {NotJson(st) : st \in Statuses}
    \cup {Json(st, FALSE, FALSE, <<>>) : st \in Statuses}
    \cup {Json(st, FALSE, TRUE, l) : st \in Statuses, l \in SerpLists}

ToolEntry(title, page_url, similarity_score, found_via) ==
    [title |-> title, domain |-> Absent, thumbnail_url |-> Absent,
     page_url |-> page_url, similarity_score |-> similarity_score,
     found_via |-> found_via, metadata |-> Absent]

ToolEntrySet ==
    {ToolEntry(Absent, Absent, Absent, Absent),
     ToolEntry("Sunflowers copy", "b", "0.9", "bing")}

ToolLists ==
    Lists(ToolEntrySet, MaxVaried)
    \cup {[i \in 1..n |-> ToolEntry(Absent, LongLinks[i + 1], Absent, Absent)] :
            n \in (MaxVaried + 1)..MaxResults}

ToolResponses ==
    {Exception("Connection refused")}
    \cup {NotJson(st) : st \in Statuses}
    \cup {Json(500, FALSE, FALSE, <<>>),
          Json(200, FALSE, FALSE, <<>>),
          Json(200, TRUE, FALSE, <<>>)}
    \cup {Json(200, TRUE, TRUE, l) : l \in ToolLists}

ImgLinks == <<"a", "d", "e", "f", "g">>

\* the images an answering site reports
SiteImages ==
    [k \in 1..MaxImages |->
       [alt_text |-> IF k = 1 THEN Absent ELSE "a painting",
        thumbnail_url |-> Absent,
        page_url |-> ImgLinks[k],
        similarity_score |-> IF k = 1 THEN Absent ELSE "0.8"]]

Answering == Json(200, TRUE, TRUE, SiteImages)

\* a site that does not answer with images: the request raises, the status
\* is not 200, or the answer has no 'similar_images'
NotAnswering ==
    {Exception("Connection refused"), Json(500, FALSE, FALSE, <<>>),
     Json(200, TRUE, FALSE, <<>>)}

\* one response per target site, at most MaxFailSites of them not answering
SiteResponses ==
    {sr \in [1..Len(target_sites) -> {Answering} \cup NotAnswering] :
       Cardinality({i \in 1..Len(target_sites) : sr[i] # Answering}) <= MaxFailSites}

\* os.getenv: not set, set to nothing, set
Keys == {None, "", "key"}

-----------------------------------------------------------------------------
(* check_plagiarism                                                        *)

Uploads == {"no image", "no filename", "invalid image", "valid"}

\* the checks of the upload
CheckUpload ==
    /\ pc = "request"
    /\ \E upload \in Uploads :
         IF upload = "valid"
         THEN pc' = "serpapi" /\ http' = http
         ELSE pc' = "done" /\ http' = 400
    /\ UNCHANGED <<SERPAPI_KEY, TOOLHOUSE_API_KEY, net, io,
                   serpapi_results, toolhouse_results, combined_results>>

\* serpapi_results = search_similar_images_serpapi(temp_path); net' is what
\* the provider answers when it is asked
SearchSerpapi ==
    /\ pc = "serpapi"
    /\ net' \in (IF Truthy(SERPAPI_KEY)
                 THEN [primary : SerpResponses, sites : {<<>>}]
                 ELSE {NoNet})
    /\ LET r == search_similar_images_serpapi(SERPAPI_KEY, net'.primary)
       IN  /\ io' = io \o r.io
           /\ IF r.raised
              THEN /\ pc' = "done"
                   /\ http' = 500
                   /\ serpapi_results' = serpapi_results
              ELSE /\ pc' = "toolhouse"
                   /\ http' = http
                   /\ serpapi_results' = r.ret
    /\ UNCHANGED <<SERPAPI_KEY, TOOLHOUSE_API_KEY, toolhouse_results, combined_results>>

\* toolhouse_results = search_similar_images_toolhouse(temp_path); net' is
\* what the provider answers to the primary request and to the request for
\* each target site
SearchToolhouse ==
    /\ pc = "toolhouse"
    /\ net' \in (IF Truthy(TOOLHOUSE_API_KEY)
                 THEN [primary : ToolResponses, sites : SiteResponses]
                 ELSE {NoNet})
    /\ LET r == search_similar_images_toolhouse(TOOLHOUSE_API_KEY, net')
       IN  /\ io' = io \o r.io
           /\ IF r.raised
              THEN /\ pc' = "done"
                   /\ http' = 500
                   /\ toolhouse_results' = toolhouse_results
              ELSE /\ pc' = "combine"
                   /\ http' = http
                   /\ toolhouse_results' = r.ret
    /\ UNCHANGED <<SERPAPI_KEY, TOOLHOUSE_API_KEY, serpapi_results, combined_results>>

-----------------------------------------------------------------------------
(* combine_search_results                                                  *)

\* the match dicts: those of the toolhouse primary response have the key
\* 'additional_info' too
MatchRecords ==
    [title : STRING, source : STRING, thumbnail : STRING, link : STRING,
     similarity : STRING, search_engine : STRING]
    \cup [title : STRING, source : STRING, thumbnail : STRING, link : STRING,
          similarity : STRING, search_engine : STRING, additional_info : STRING]

\* all_matches and seen_urls
Accs == [all_matches : Seq(MatchRecords), seen_urls : SUBSET STRING]

\* a loop body that does not look the link up in seen_urls
AddMatch_NotSeenUnchecked(acc, match) ==
    LET url == Get(match.link, "")
    IN  IF Truthy(url)
        THEN [all_matches |-> Append(acc.all_matches, match),
              seen_urls |-> acc.seen_urls \cup {url}]
        ELSE acc

\* the body of the two loops over a provider's matches
AddMatch(acc, match) ==
    LET url == Get(match.link, "")
    IN  IF Truthy(url) /\ url \notin acc.seen_urls
        THEN [all_matches |-> Append(acc.all_matches, match),
              seen_urls |-> acc.seen_urls \cup {url}]
        ELSE acc

\* one of the two loops over a provider's matches
AddMatches[matches \in Seq(MatchRecords), acc \in Accs] ==
    IF matches = <<>> THEN acc
    ELSE AddMatches[Tail(matches), AddMatch(acc, Head(matches))]

\* a key that ranks Medium before High
sort_key_MediumFirst(match) ==
    LET similarity == Get(match.similarity, "Low")
    IN  IF similarity = "Medium" THEN 0
        ELSE IF similarity = "High" THEN 1
        ELSE 2

sort_key(match) ==
    LET similarity == Get(match.similarity, "Low")
    IN  IF similarity = "High" THEN 0
        ELSE IF similarity = "Medium" THEN 1
        ELSE 2

\* m put into the sorted list after every record whose key is not larger
InsertByKey[sorted \in Seq(MatchRecords), m \in MatchRecords] ==
    IF sorted = <<>> THEN <<m>>
    ELSE IF sort_key(Head(sorted)) <= sort_key(m)
         THEN <<Head(sorted)>> \o InsertByKey[Tail(sorted), m]
         ELSE <<m>> \o sorted

\* list.sort(key=sort_key): a stable sort
SortMatches[s \in Seq(MatchRecords)] ==
    IF s = <<>> THEN <<>>
    ELSE InsertByKey[SortMatches[SubSeq(s, 1, Len(s) - 1)], s[Len(s)]]

\* an aggregation that reports the sum of the providers' counts
combine_search_results_SumOfCounts(serpapi, toolhouse) ==
    LET first == AddMatches[serpapi.matches, [all_matches |-> <<>>, seen_urls |-> {}]]
        both == AddMatches[toolhouse.matches, first]
        all_matches == SortMatches[both.all_matches]
    IN  [matches |-> all_matches,
         total_found |-> serpapi.total_found + toolhouse.total_found,
         serpapi_count |-> serpapi.total_found,
         toolhouse_count |-> toolhouse.total_found,
         errors |-> <<>>]

combine_search_results(serpapi, toolhouse) ==
    LET first == AddMatches[serpapi.matches, [all_matches |-> <<>>, seen_urls |-> {}]]
        both == AddMatches[toolhouse.matches, first]
        all_matches == SortMatches[both.all_matches]
    IN  [matches |-> all_matches,
         total_found |-> Len(all_matches),
         serpapi_count |-> serpapi.total_found,
         toolhouse_count |-> toolhouse.total_found,
         errors |-> <<>>]

-----------------------------------------------------------------------------
(* check_plagiarism: the call of combine_search_results and the response   *)

Combine ==
    /\ pc = "combine"
    /\ combined_results' = combine_search_results(serpapi_results, toolhouse_results)
    /\ http' = 200
    /\ pc' = "done"
    /\ UNCHANGED <<SERPAPI_KEY, TOOLHOUSE_API_KEY, net, io,
                   serpapi_results, toolhouse_results>>

-----------------------------------------------------------------------------
(* combine_search_results on provider results of any content               *)

\* link and similarity of an input match whose own link is own: the link is
\* "a", which other matches may have too, or own, which no other match has,
\* or empty; a record may lack either key
InputFields(own) ==
    {<<"a", "High">>, <<"a", "Medium">>,
     <<own, "High">>, <<own, "Medium">>, <<own, "0.9">>, <<own, Absent>>,
     <<"", "High">>, <<Absent, "Medium">>}

InputErrors == {Absent, "timed out"}

SerpTitles == <<"s1", "s2", "s3", "s4", "s5", "s6">>
ToolTitles == <<"t1", "t2", "t3", "t4", "t5", "t6">>
SerpOwnLinks == <<"u1", "u2", "u3", "u4", "u5", "u6">>
ToolOwnLinks == <<"v1", "v2", "v3", "v4", "v5", "v6">>

InputMatch(title, engine, f) ==
    [title |-> title, source |-> "Unknown source", thumbnail |-> "",
     link |-> f[1], similarity |-> f[2], search_engine |-> engine]

InputResult(source, titles, engine, fs, err) ==
    [matches |-> [i \in 1..Len(fs) |-> InputMatch(titles[i], engine, fs[i])],
     total_found |-> Len(fs), source |-> source, error |-> err]

\* the fields of n input matches
RECURSIVE FieldSeqs(_, _)
FieldSeqs(owns, n) ==
    IF n = 0 THEN {<<>>}
    ELSE {Append(fs, f) : fs \in FieldSeqs(owns, n - 1), f \in InputFields(owns[n])}

CombineInit ==
    /\ pc = "combine"
    /\ SERPAPI_KEY = "key"
    /\ TOOLHOUSE_API_KEY = "key"
    /\ net = NoNet
    /\ io = <<>>
    /\ http = 0
    /\ combined_results = NoCombined
    /\ \E n \in 0..MaxTotal, e1 \in InputErrors, e2 \in InputErrors :
         \E m \in 0..(MaxTotal - n) :
           \E fs \in FieldSeqs(SerpOwnLinks, n) :
             \E ft \in FieldSeqs(ToolOwnLinks, m) :
               /\ serpapi_results =
                    InputResult("serpapi", SerpTitles, "Google (SerpAPI)", fs, e1)
               /\ toolhouse_results =
                    InputResult("toolhouse", ToolTitles, "Toolhouse Scraper", ft, e2)

CombineNext == Combine

CombineSpec == CombineInit /\ [][CombineNext]_vars

-----------------------------------------------------------------------------
(* One /check-plagiarism request                                           *)

Init ==
    /\ pc = "request"
    /\ SERPAPI_KEY \in Keys
    /\ TOOLHOUSE_API_KEY \in Keys
    /\ net = NoNet
    /\ io = <<>>
    /\ serpapi_results = NoResult
    /\ toolhouse_results = NoResult
    /\ combined_results = NoCombined
    /\ http = 0

Next ==
    \/ CheckUpload
    \/ SearchSerpapi
    \/ SearchToolhouse
    \/ Combine

Spec == Init /\ [][Next]_vars

\* the handler runs to its return: every call it makes returns
FairSpec ==
    /\ Spec
    /\ WF_vars(CheckUpload)
    /\ WF_vars(SearchSerpapi)
    /\ WF_vars(SearchToolhouse)
    /\ WF_vars(Combine)

-----------------------------------------------------------------------------
(* Vocabulary of the properties                                            *)

\* the request has been answered with an aggregated result
Answered == pc = "done" /\ http = 200

\* the adapter has returned its result to check_plagiarism
SerpReturned == pc \in {"toolhouse", "combine"} \/ Answered
ToolReturned == pc = "combine" \/ Answered

\* all serpapi matches in their order, then all toolhouse matches in theirs
Merged == serpapi_results.matches \o toolhouse_results.matches

\* the link of a record, a record without the key having none
LinkOf(m) == IF m.link = Absent THEN "" ELSE m.link

\* positions of the records of s with link l
WithLink(s, l) == {i \in DOMAIN s : LinkOf(s[i]) = l}

Min(S) == CHOOSE x \in S : \A y \in S : x <= y

\* the similarity tier of a record: High, Medium, anything else
Tier(m) ==
    IF m.similarity = "High" THEN 0 ELSE IF m.similarity = "Medium" THEN 1 ELSE 2

\* position of the record r in s
PosIn(s, r) == Min({i \in DOMAIN s : s[i] = r})

\* the io events of one adapter
EventsBy(by) == {i \in DOMAIN io : io[i].by = by}

-----------------------------------------------------------------------------
(* Properties of combine_search_results (CombineSpec)                      *)

\* C1: every non-empty link of the input matches is the link of exactly one
\* output record, which is the first record with that link in the order
\* serpapi matches, then toolhouse matches, all its fields unchanged.
C1_FirstOccurrenceKept ==
    Answered =>
      \A i \in DOMAIN Merged :
        LET l == LinkOf(Merged[i])
            outs == WithLink(combined_results.matches, l)
        IN  l # "" =>
              /\ Cardinality(outs) = 1
              /\ \A j \in outs :
                   combined_results.matches[j] = Merged[Min(WithLink(Merged, l))]

\* a link reported by both providers, with different fields, has been merged
C1_Witness ==
    /\ Answered
    /\ \E i \in DOMAIN serpapi_results.matches :
         \E j \in DOMAIN toolhouse_results.matches :
           /\ LinkOf(serpapi_results.matches[i]) # ""
           /\ LinkOf(serpapi_results.matches[i]) = LinkOf(toolhouse_results.matches[j])
           /\ serpapi_results.matches[i].similarity
                # toolhouse_results.matches[j].similarity
           /\ \E k \in DOMAIN combined_results.matches :
                combined_results.matches[k] = serpapi_results.matches[i]

\* C2: every input record with an empty or missing link is in the output, so
\* that n such input records give n such output records.
C2_EmptyLinksKept ==
    Answered =>
      Cardinality(WithLink(combined_results.matches, ""))
        = Cardinality(WithLink(Merged, ""))

\* C3: 'errors' holds the error of every provider result that carries a
\* non-empty one, and is empty only when none does.
C3_ErrorsCollected ==
    Answered =>
      \A r \in {serpapi_results, toolhouse_results} :
        (r.error # Absent /\ r.error # "") =>
          \E k \in DOMAIN combined_results.errors : combined_results.errors[k] = r.error

\* C4: in the output High records precede Medium records, which precede all
\* others, and records of one tier keep the order they have in the merged
\* input.
C4_TiersInOrderAndStable ==
    Answered =>
      LET out == combined_results.matches
      IN  \A i \in DOMAIN out : \A j \in DOMAIN out :
            i < j =>
              /\ Tier(out[i]) <= Tier(out[j])
              /\ Tier(out[i]) = Tier(out[j])
                   => PosIn(Merged, out[i]) < PosIn(Merged, out[j])

\* the sort has moved a record: all three tiers are in the output, two
\* records share a tier, and the output is not in the merged order
C4_Witness ==
    /\ Answered
    /\ LET out == combined_results.matches
       IN  /\ {Tier(out[i]) : i \in DOMAIN out} = {0, 1, 2}
           /\ \E i \in DOMAIN out : \E j \in DOMAIN out :
                i < j /\ Tier(out[i]) = Tier(out[j])
           /\ \E i \in DOMAIN out : \E j \in DOMAIN out :
                i < j /\ PosIn(Merged, out[i]) > PosIn(Merged, out[j])

-----------------------------------------------------------------------------
(* Properties of the adapters and of the request (Spec)                    *)

\* C5: total_found of the aggregated result is the number of its matches, at
\* most the sum of the adapters' total_found and at least the number of
\* distinct non-empty links among their matches.
C5_TotalFound ==
    Answered =>
      /\ combined_results.total_found = Len(combined_results.matches)
      /\ combined_results.total_found
           <= serpapi_results.total_found + toolhouse_results.total_found
      /\ combined_results.total_found
           >= Cardinality({LinkOf(Merged[i]) : i \in DOMAIN Merged} \ {""})

\* both adapters found matches and the aggregation removed some of them
C5_Witness ==
    /\ Answered
    /\ serpapi_results.total_found > 0
    /\ toolhouse_results.total_found > 0
    /\ combined_results.total_found > 0
    /\ combined_results.total_found
         < serpapi_results.total_found + toolhouse_results.total_found

\* a communication failure of the primary request: the request raises, the
\* status is not a success, or the body is no JSON
PrimaryFailed(resp) ==
    resp.kind = "exception" \/ (resp.kind = "http" /\ (resp.status # 200 \/ ~resp.is_json))

\* the result dict of a failure
IsFailure(r) ==
    r.matches = <<>> /\ r.total_found = 0 /\ r.error # Absent /\ r.error # ""

\* C6: with its credential set, an adapter whose primary request fails
\* returns empty matches, total_found 0 and a non-empty error, and no
\* exception leaves the adapter.
C6_FailureReported ==
    /\ (pc = "toolhouse" /\ Truthy(SERPAPI_KEY) /\ PrimaryFailed(net.primary))
          => IsFailure(serpapi_results)
    /\ (pc = "combine" /\ Truthy(TOOLHOUSE_API_KEY) /\ PrimaryFailed(net.primary))
          => IsFailure(toolhouse_results)
    /\ http # 500

\* C7: an adapter whose credential is absent or unset returns matches [],
\* total_found 0, its source and no error, having opened no file and sent
\* no request.
C7_DisabledProvider ==
    /\ (SerpReturned /\ ~Truthy(SERPAPI_KEY)) =>
          /\ serpapi_results =
               [matches |-> <<>>, total_found |-> 0, source |-> "serpapi",
                error |-> Absent]
          /\ EventsBy("serpapi") = {}
    /\ (ToolReturned /\ ~Truthy(TOOLHOUSE_API_KEY)) =>
          /\ toolhouse_results =
               [matches |-> <<>>, total_found |-> 0, source |-> "toolhouse",
                error |-> Absent]
          /\ EventsBy("toolhouse") = {}

\* both adapters have returned, one with its credential not set and the
\* other with it set to the empty string
C7_Witness ==
    /\ pc = "combine"
    /\ SERPAPI_KEY = ""
    /\ TOOLHOUSE_API_KEY = None
    /\ io = <<>>

\* the crawl has run: the credential is set and the primary request succeeded
Crawled == pc = "combine" /\ Truthy(TOOLHOUSE_API_KEY) /\ ~PrimaryFailed(net.primary)

\* the request to target site i raised or had a status other than 200
SiteFailed(i) == net.sites[i].kind = "exception" \/ net.sites[i].status # 200

\* the toolhouse matches found by the crawl of one site
FromSite(site) ==
    {k \in DOMAIN toolhouse_results.matches :
       toolhouse_results.matches[k].search_engine = CrawlerEngine(site)}

\* the number of matches a site's response is to add
SiteYield(resp) ==
    IF resp.has_results /\ resp.has_list
    THEN (IF Len(resp.items) < 2 THEN Len(resp.items) ELSE 2)
    ELSE 0

\* the number of matches the primary response is to add
PrimaryYield(resp) ==
    IF resp.has_results /\ resp.has_list
    THEN (IF Len(resp.items) < 5 THEN Len(resp.items) ELSE 5)
    ELSE 0

\* C8: a target site whose request fails sets no error, leaves the matches
\* of the primary response in place, and every other site is still requested
\* and its matches (at most 2) are added.
C8_SiteFailureDropped ==
    (Crawled /\ \E i \in DOMAIN target_sites : SiteFailed(i)) =>
      /\ toolhouse_results.error = Absent
      /\ \A k \in 1..PrimaryYield(net.primary) :
           /\ k \in DOMAIN toolhouse_results.matches
           /\ toolhouse_results.matches[k].search_engine
                = Get(net.primary.items[k].found_via, "Toolhouse Scraper")
           /\ toolhouse_results.matches[k].link
                = Get(net.primary.items[k].page_url, "")
      /\ \A j \in DOMAIN target_sites :
           /\ \E e \in EventsBy("toolhouse") :
                io[e].op = "post" /\ io[e].target = target_sites[j]
           /\ ~SiteFailed(j) =>
                Cardinality(FromSite(target_sites[j])) = SiteYield(net.sites[j])

\* C9 as stated: every adapter result has total_found = len(matches) and at
\* most 5 matches.
C9_AtMostFivePerAdapter ==
    /\ SerpReturned =>
         /\ serpapi_results.total_found = Len(serpapi_results.matches)
         /\ Len(serpapi_results.matches) <= 5
    /\ ToolReturned =>
         /\ toolhouse_results.total_found = Len(toolhouse_results.matches)
         /\ Len(toolhouse_results.matches) <= 5

\* C9 amended: every adapter result has total_found = len(matches); the
\* serpapi result has at most 5 matches; the toolhouse result has at most 5
\* matches of the primary response and at most 2 of each target site, 15 in
\* all.
C9_CapsPerAdapter ==
    /\ SerpReturned =>
         /\ serpapi_results.total_found = Len(serpapi_results.matches)
         /\ Len(serpapi_results.matches) <= 5
    /\ ToolReturned =>
         LET crawled == UNION {FromSite(target_sites[j]) : j \in DOMAIN target_sites}
         IN  /\ toolhouse_results.total_found = Len(toolhouse_results.matches)
             /\ \A j \in DOMAIN target_sites :
                  Cardinality(FromSite(target_sites[j])) <= 2
             /\ Cardinality(DOMAIN toolhouse_results.matches \ crawled) <= 5
             /\ Len(toolhouse_results.matches) <= 5 + 2 * Len(target_sites)

\* both providers answered with more entries than the cap and every target
\* site with more images than its cap
C9_Witness ==
    /\ pc = "combine"
    /\ Len(serpapi_results.matches) = 5
    /\ Len(net.primary.items) > 5
    /\ \A j \in DOMAIN target_sites : Len(net.sites[j].items) > 2
    /\ Len(toolhouse_results.matches) = 15

\* combine_search_results has returned its result
Aggregated ==
    /\ Answered
    /\ combined_results.total_found = Len(combined_results.matches)
    /\ combined_results.serpapi_count = serpapi_results.total_found
    /\ combined_results.toolhouse_count = toolhouse_results.total_found

====
